---- MODULE Spec2Model ----
(***************************************************************************)
(* Model of recognition/SegmentProstate_s4648123: the Dice loss            *)
(* (train.py, class Dice), the training and validation epoch loops         *)
(* (train.py, train / validate / __main__) and the prediction script       *)
(* (predict.py with dataset.get_test_dataloader).                          *)
(*                                                                         *)
(* Numbers.  Tensor values are fixed-point integers in units of 1/Unit     *)
(* (Unit = 10^6, so that the default smooth = 1e-6 is exactly one unit).   *)
(* A Dice score is kept as the exact fraction num/den of two such          *)
(* integers.  Label values are kept in tenths (27 is the label 2.7), so    *)
(* that the conversion .long() is a real truncation.                       *)
(*                                                                         *)
(* Tensors.  A volume has batch size 1 and one spatial axis (depth); the   *)
(* other spatial axes have extent 1.  Logits are a sequence over depth of  *)
(* class vectors (a sequence of NumClasses logits, class c at index c+1);  *)
(* a target is a sequence over depth of label values.                      *)
(***************************************************************************)
EXTENDS Integers, Sequences, FiniteSets, TLC

VARIABLES
    script,       \* which program runs: "dice", "train" or "predict"
    \* ---- a call of Dice on given tensors
    dLogits,      \* pred argument: raw logits
    dTarget,      \* target argument: label values (tenths)
    dScores,      \* result of dice_scores_per_class
    dLoss,        \* result of forward
    dPc,          \* "ready" | "called"
    \* ---- train.py: the model, the optimizer and the loaders
    params,       \* unet's parameters (an abstract value)
    grad,         \* the gradient accumulated in the parameters' .grad
    optState,     \* the optimizer's state: the number of steps taken
    mode,         \* "train" | "eval": set by model.train() / model.eval()
    accumulation_steps,
    train_loader, \* the batches the training loader yields, in order
    val_loader,   \* the batches the validation loader yields
    \* ---- train.py: __main__
    pc,           \* "loop" | "validate" | "checkpoint" | "raised"
    epoch,        \* number of epochs completed
    trainRet,     \* the last return value of train()
    valRet,       \* the last return value of validate()
    train_losses,
    val_losses,
    best_metric,
    ckpt,         \* content of the file MODEL_PATH: <<>> (absent) or <<params>>
    \* ---- history of the run, read by the properties only
    gradSrc,      \* the <<epoch, position>> of each batch summed in grad
    callLog,      \* what the last call of train() did: ops, steps, losses
    paramHist,    \* the parameters at the end of each epoch
    saveLog,      \* the epochs (1-based) after which torch.save ran
    \* ---- predict.py and the files it reads
    checkpointExists,  \* os.path.exists(MODEL_PATH)
    dataDirs,     \* whether the two dataset directories exist
    imageFiles,   \* number of .nii.gz files in image_dir
    maskFiles,    \* number of .nii.gz files in mask_dir
    prPc,         \* "start" | "finished" | "raised"
    prErr,        \* the exception that ended the script, or "none"
    prOut,        \* the lines printed
    prRan,        \* which of "load", "validate", "visualise" ran
    prTestIdx     \* test_idx of get_test_dataloader

diceVars == <<dLogits, dTarget, dScores, dLoss, dPc>>
modelVars == <<params, grad, optState, mode>>
loaderVars == <<accumulation_steps, train_loader, val_loader>>
mainVars == <<pc, epoch, trainRet, valRet, train_losses, val_losses,
              best_metric, ckpt>>
histVars == <<gradSrc, callLog, paramHist, saveLog>>
trainVars == <<modelVars, loaderVars, mainVars, histVars>>
fileVars == <<checkpointExists, dataDirs, imageFiles, maskFiles>>
predictVars == <<fileVars, prPc, prErr, prOut, prRan, prTestIdx>>
vars == <<script, diceVars, trainVars, predictVars>>

-----------------------------------------------------------------------------
(* Bounds of the model *)

\* largest extent of the depth axis of a tensor handed to Dice
MaxDepth == 2
\* largest number of batches of the training loader
MaxBatches == 13
\* largest number of batches of the validation loader
MaxValBatches == 2
\* largest accumulation_steps a caller passes besides the default
MaxAccum == 4
\* number of epochs the model follows (the code runs 20)
MaxEpochs == 2
\* largest number of files in a dataset directory
MaxFiles == 3

-----------------------------------------------------------------------------
(* Program constants *)

\* one_hot(..., num_classes=6)
NumClasses == 6
\* fixed-point scale: smooth = 1e-6 is one unit
Unit == 1000000
\* Dice.__init__(smooth=1e-6)
smooth == 1
\* label values are kept in tenths
LabelScale == 10
\* def train(..., accumulation_steps=12)
DefaultAccum == 12
\* epochs = 20
epochs == 20
\* best_metric = float(100.)
InitialBest == 100

-----------------------------------------------------------------------------
(* Arithmetic helpers *)

Max(a, b) == IF a >= b THEN a ELSE b

RECURSIVE SumSeq(_)
SumSeq(s) == IF s = <<>> THEN 0 ELSE Head(s) + SumSeq(Tail(s))

\* floor(r * 10^n / b) for 0 <= r < b, digit by digit (no overflow)
RECURSIVE DivDigits(_, _, _)
DivDigits(r, b, n) ==
    IF n = 0 THEN 0
    ELSE ((r * 10) \div b) * (10 ^ (n - 1)) + DivDigits((r * 10) % b, b, n - 1)

\* the fixed-point quotient a / b rounded to the nearest unit:
\* floor(a * 10 * Unit / b) is computed first, then the last digit rounded
FixDiv(a, b) == ((a \div b) * Unit * 10 + DivDigits(a % b, b, 7) + 5) \div 10

-----------------------------------------------------------------------------
(* class Dice *)

\* 8 * e^l rounded, for the logit values of the model (softmax only reads
\* the ratios): at l = 17 softmax saturates to exactly 0 and 1 at the
\* resolution 1/Unit, as float32 softmax does for a large margin
ExpTab(l) ==
    CASE l = 0  -> 8
      [] l = 1  -> 22
      [] l = 17 -> 193239622

\* torch.softmax(pred, dim=1) for one voxel: probabilities in 1/Unit
Softmax(vec) ==
    LET w == [c \in 1..NumClasses |-> ExpTab(vec[c])]
        W == SumSeq(w)
    IN  [c \in 1..NumClasses |-> FixDiv(w[c], W)]

\* tensor.long(): truncation toward zero of a label value in tenths
ToLong(v) == IF v >= 0 THEN v \div LabelScale ELSE -((-v) \div LabelScale)

\* one_hot(label, num_classes=6) for one voxel
OneHot(l) == [c \in 1..NumClasses |-> IF c = l + 1 THEN 1 ELSE 0]

\* the index along the depth axis that broadcasting reads from a tensor
Bcast(t, v) == IF Len(t) = 1 THEN 1 ELSE v

\* a variant that keeps the background class: one score for each of 6 classes
ScoreVectorWithBackground(pred, target) ==
    LET longs == [v \in 1..Len(target) |-> ToLong(target[v])]
        hot   == [v \in 1..Len(target) |-> OneHot(longs[v])]
        soft  == [v \in 1..Len(pred) |-> Softmax(pred[v])]
        D     == Max(Len(pred), Len(target))
        inter(c) == SumSeq([v \in 1..D |->
                       soft[Bcast(pred, v)][c] * hot[Bcast(target, v)][c]])
        ground(c) == SumSeq([v \in 1..Len(target) |-> hot[v][c] * Unit])
        predo(c)  == SumSeq([v \in 1..Len(pred) |-> soft[v][c]])
    IN  [k \in 1..NumClasses |->
            [num |-> 2 * inter(k) + smooth,
             den |-> ground(k) + predo(k) + smooth]]

\* the scores of classes 1..5 (background excluded), reduced over depth
ScoreVector(pred, target) ==
    LET longs == [v \in 1..Len(target) |-> ToLong(target[v])]
        hot   == [v \in 1..Len(target) |-> OneHot(longs[v])]
        soft  == [v \in 1..Len(pred) |-> Softmax(pred[v])]
        D     == Max(Len(pred), Len(target))
        inter(c) == SumSeq([v \in 1..D |->
                       soft[Bcast(pred, v)][c] * hot[Bcast(target, v)][c]])
        ground(c) == SumSeq([v \in 1..Len(target) |-> hot[v][c] * Unit])
        predo(c)  == SumSeq([v \in 1..Len(pred) |-> soft[v][c]])
    IN  [k \in 1..(NumClasses - 1) |->
            [num |-> 2 * inter(k + 1) + smooth,
             den |-> ground(k + 1) + predo(k + 1) + smooth]]

\* Dice.dice_scores_per_class(pred, target)
dice_scores_per_class(pred, target) ==
    IF \E v \in 1..Len(target) :
           ToLong(target[v]) < 0 \/ ToLong(target[v]) >= NumClasses
    THEN [err |-> "RuntimeError", scores |-> <<>>]
    ELSE IF Len(pred) # Len(target) /\ Len(pred) # 1 /\ Len(target) # 1
    THEN [err |-> "RuntimeError", scores |-> <<>>]
    ELSE [err |-> "none", scores |-> ScoreVector(pred, target)]

\* Dice.calculate_weighted_loss: 1 - torch.mean(class_dice_scores)
calculate_weighted_loss(class_dice_scores, target) ==
    Unit - SumSeq([k \in 1..Len(class_dice_scores) |->
                     FixDiv(class_dice_scores[k].num, class_dice_scores[k].den)])
               \div Len(class_dice_scores)

\* Dice.forward(pred, target)
forward(pred, target) ==
    LET r == dice_scores_per_class(pred, target)
    IN  IF r.err # "none" THEN [err |-> r.err, loss |-> 0]
        ELSE [err |-> "none", loss |-> calculate_weighted_loss(r.scores, target)]

-----------------------------------------------------------------------------
(* Inputs of the Dice calls *)

\* a class vector with logit m at class c and 0 elsewhere
Hot(c, m) == [k \in 1..NumClasses |-> IF k = c + 1 THEN m ELSE 0]

\* the classes the model's logits single out
HotClasses == {0, 1, 5}
\* the logit values of the model: 0, a small margin, a saturating margin
LogitValues == {0, 1, 17}
LogitVecs == {Hot(c, m) : c \in HotClasses, m \in LogitValues}

\* label values in tenths: -1, 0, 1, 2.7, 5, 6
LabelValues == {-10, 0, 10, 27, 50, 60}

SeqsUpTo(S, n) == UNION {[1..d -> S] : d \in 1..n}

NoScores == [err |-> "unset", scores |-> <<>>]
NoLoss == [err |-> "unset", loss |-> 0]
NoRet == [err |-> "unset"]
NoLog == [ops |-> <<>>, steps |-> <<>>, losses |-> <<>>]

TrainIdle ==
    /\ params = 0 /\ grad = 0 /\ optState = 0 /\ mode = "train"
    /\ accumulation_steps = DefaultAccum
    /\ train_loader = <<>> /\ val_loader = <<>>
    /\ pc = "idle" /\ epoch = 0
    /\ trainRet = NoRet /\ valRet = NoRet
    /\ train_losses = <<>> /\ val_losses = <<>>
    /\ best_metric = InitialBest * Unit
    /\ ckpt = <<>>
    /\ gradSrc = <<>> /\ callLog = NoLog /\ paramHist = <<>> /\ saveLog = <<>>

PredictIdle ==
    /\ checkpointExists = FALSE /\ dataDirs = FALSE
    /\ imageFiles = 0 /\ maskFiles = 0
    /\ prPc = "idle" /\ prErr = "none" /\ prOut = <<>> /\ prRan = {}
    /\ prTestIdx = <<>>

DiceInit ==
    /\ script = "dice"
    /\ TrainIdle
    /\ PredictIdle
    /\ dLogits \in SeqsUpTo(LogitVecs, MaxDepth)
    /\ dTarget \in SeqsUpTo(LabelValues, MaxDepth)
    /\ dScores = NoScores
    /\ dLoss = NoLoss
    /\ dPc = "ready"

\* a caller evaluates crit.dice_scores_per_class and crit(pred, target)
CallDice ==
    /\ script = "dice"
    /\ dPc = "ready"
    /\ dScores' = dice_scores_per_class(dLogits, dTarget)
    /\ dLoss' = forward(dLogits, dTarget)
    /\ dPc' = "called"
    /\ UNCHANGED <<script, dLogits, dTarget, trainVars, predictVars>>

SpecDice == DiceInit /\ [][CallDice]_vars

-----------------------------------------------------------------------------
(* The collaborators of train.py: the network, autograd and the optimizer *)

\* the values the model's parameters take
ParamValues == 0..(NumClasses - 1)

\* unet(images): a callable from a volume to logits of the same extent; the
\* class it singles out at a voxel depends on the parameters and the voxel
UNet3D(p, images) ==
    [v \in 1..Len(images) |-> Hot((p + images[v]) % NumClasses, 17)]

\* a / k rounded to the nearest unit (a >= 0, k > 0)
DivRound(a, k) == (2 * a + k) \div (2 * k)

\* the batches {"image": ..., "label": ...} the loaders of the model yield
Batch(x, l) == [image |-> <<x>>, label |-> <<l>>]
Batches == {Batch(0, 10), Batch(1, 30)}

\* crit(unet(images), labels), tabulated over parameters and batches
CritOf == [p \in ParamValues, b \in Batches |->
              forward(UNet3D(p, b.image), b.label)]
\* crit.dice_scores_per_class(unet(images), labels), tabulated
ScoresOf == [p \in ParamValues, b \in Batches |->
                dice_scores_per_class(UNet3D(p, b.image), b.label)]

\* the value of crit(unet(images), labels) / accumulation_steps at parameters p
ScaledLoss(p, batch, k) == DivRound(CritOf[p, batch].loss, k)

\* loss.backward(): what the call adds to the parameters' .grad, the
\* derivative of the scaled loss in the parameters (a forward difference)
Backward(p, batch, k) ==
    ScaledLoss((p + 1) % NumClasses, batch, k) - ScaledLoss(p, batch, k)

\* optimizer.step() of torch.optim.Adam: each parameter moves against the
\* sign of its accumulated gradient
AdamStep(p, g) ==
    IF g > 0 THEN (p + NumClasses - 1) % NumClasses
    ELSE IF g < 0 THEN (p + 1) % NumClasses
    ELSE p

-----------------------------------------------------------------------------
(* train(model, dataloader, optimizer, crit, accumulation_steps) *)

\* a variant that tests the 0-based index of the batch
StepDueOnIndex(i, k) == i % k = 0

\* if (i + 1) % accumulation_steps == 0
StepDue(i, k) == (i + 1) % k = 0

\* a variant that adds the scaled loss as it is
LossItemScaled(loss, k) == loss

\* loss.item() * accumulation_steps
LossItem(loss, k) == loss * k

\* the body of the loop for batch number i (0-based) of epoch ep
TrainBatch(ts, batch, k, ep) ==
    LET res == CritOf[ts.params, batch]
    IN  IF res.err # "none" THEN [ts EXCEPT !.err = res.err]
        ELSE
        LET loss == DivRound(res.loss, k)
            g1   == ts.grad + Backward(ts.params, batch, k)
            src1 == Append(ts.gradSrc, <<ep, ts.i + 1>>)
            ops1 == Append(ts.ops, [op |-> "backward", at |-> ts.i + 1])
            due  == StepDue(ts.i, k)
        IN  [params     |-> IF due THEN AdamStep(ts.params, g1) ELSE ts.params,
             optState   |-> IF due THEN ts.optState + 1 ELSE ts.optState,
             grad       |-> IF due THEN 0 ELSE g1,
             gradSrc    |-> IF due THEN <<>> ELSE src1,
             ops        |-> IF due
                            THEN ops1 \o <<[op |-> "step", at |-> ts.i + 1],
                                           [op |-> "zero_grad", at |-> ts.i + 1]>>
                            ELSE ops1,
             steps      |-> IF due THEN Append(ts.steps, src1) ELSE ts.steps,
             losses     |-> Append(ts.losses, res.loss),
             epoch_loss |-> ts.epoch_loss + LossItem(loss, k),
             i          |-> ts.i + 1,
             err        |-> "none"]

RECURSIVE TrainLoop(_, _, _, _)
TrainLoop(ts, dataloader, k, ep) ==
    IF ts.err # "none" \/ ts.i >= Len(dataloader) THEN ts
    ELSE TrainLoop(TrainBatch(ts, dataloader[ts.i + 1], k, ep), dataloader, k, ep)

\* train(): m is the state of the model and the optimizer at the call
train(m, dataloader, k, ep) ==
    LET ts0 == [params |-> m.params, optState |-> m.optState, grad |-> m.grad,
                gradSrc |-> m.gradSrc, ops |-> <<>>, steps |-> <<>>,
                losses |-> <<>>, epoch_loss |-> 0, i |-> 0, err |-> "none"]
        ts  == TrainLoop(ts0, dataloader, k, ep)
    IN  IF ts.err # "none" THEN [st |-> ts, err |-> ts.err, loss |-> 0]
        ELSE IF Len(dataloader) = 0
        THEN [st |-> ts, err |-> "ZeroDivisionError", loss |-> 0]
        ELSE [st |-> ts, err |-> "none",
              loss |-> DivRound(ts.epoch_loss, Len(dataloader))]

-----------------------------------------------------------------------------
(* validate(model, dataloader, crit) *)

\* a variant of the loop body that tracks gradients and calls backward
ValBatchWithBackward(acc, batch) ==
    LET new == ScoresOf[acc.params, batch]
    IN  IF new.err # "none" THEN [acc EXCEPT !.err = new.err]
        ELSE [acc EXCEPT
                !.grad = @ + Backward(acc.params, batch, 1),
                !.gradSrc = Append(@, <<0, Len(acc.dice_scores) + 1>>),
                !.dice_scores = Append(@, [c \in 1..Len(new.scores) |->
                                   FixDiv(new.scores[c].num, new.scores[c].den)]),
                !.dice_losses = Append(@,
                                   calculate_weighted_loss(new.scores, batch.label))]

\* the body of the loop, under torch.no_grad()
ValBatch(acc, batch) ==
    LET new == ScoresOf[acc.params, batch]
    IN  IF new.err # "none" THEN [acc EXCEPT !.err = new.err]
        ELSE [acc EXCEPT
                !.dice_scores = Append(@, [c \in 1..Len(new.scores) |->
                                   FixDiv(new.scores[c].num, new.scores[c].den)]),
                !.dice_losses = Append(@,
                                   calculate_weighted_loss(new.scores, batch.label))]

RECURSIVE ValLoop(_, _, _)
ValLoop(acc, dataloader, n) ==
    IF acc.err # "none" \/ n > Len(dataloader) THEN acc
    ELSE ValLoop(ValBatch(acc, dataloader[n]), dataloader, n + 1)

\* validate(): m is the state of the model and the optimizer at the call
validate(m, dataloader) ==
    LET acc0 == [params |-> m.params, optState |-> m.optState, grad |-> m.grad,
                 gradSrc |-> m.gradSrc, dice_scores |-> <<>>,
                 dice_losses |-> <<>>, err |-> "none"]
        acc  == ValLoop(acc0, dataloader, 1)
        n    == Len(acc.dice_scores)
    IN  IF acc.err # "none" THEN [st |-> acc, err |-> acc.err]
        ELSE IF n = 0 THEN [st |-> acc, err |-> "RuntimeError"]
        ELSE [st |-> acc, err |-> "none",
              scores |-> [c \in 1..(NumClasses - 1) |->
                            DivRound(SumSeq([b \in 1..n |-> acc.dice_scores[b][c]]), n)],
              loss |-> DivRound(SumSeq(acc.dice_losses), n)]

-----------------------------------------------------------------------------
(* train.py __main__: the epoch loop of lines 135-170, for the loaders     *)
(* handed to it (the data loader collaborator)                             *)

\* the loader that yields n batches, repeating the pattern pat
Cycle(pat, n) == [i \in 1..n |-> pat[((i - 1) % Len(pat)) + 1]]
\* the orders of batches the loaders of the model repeat
Patterns == {<<Batch(0, 10)>>, <<Batch(1, 30)>>, <<Batch(0, 10), Batch(1, 30)>>}
Loaders(n) == {Cycle(pat, len) : pat \in Patterns, len \in 0..n}

DiceIdle ==
    /\ dLogits = <<>> /\ dTarget = <<>>
    /\ dScores = NoScores /\ dLoss = NoLoss /\ dPc = "idle"

\* unet = UNet3D() starts at any parameters; accumulation_steps is the
\* default 12 of the epoch loop, or a value a caller of train() passes
TrainInit ==
    /\ script = "train"
    /\ DiceIdle
    /\ PredictIdle
    /\ params \in ParamValues
    /\ grad = 0 /\ optState = 0 /\ mode = "train"
    /\ accumulation_steps \in (1..MaxAccum) \cup {DefaultAccum}
    /\ train_loader \in Loaders(MaxBatches)
    /\ val_loader \in Loaders(MaxValBatches)
    /\ pc = "loop" /\ epoch = 0
    /\ trainRet = NoRet /\ valRet = NoRet
    /\ train_losses = <<>> /\ val_losses = <<>>
    /\ best_metric = InitialBest * Unit
    /\ ckpt = <<>>
    /\ gradSrc = <<>> /\ callLog = NoLog /\ paramHist = <<>> /\ saveLog = <<>>

ModelState == [params |-> params, optState |-> optState, grad |-> grad,
               gradSrc |-> gradSrc]

\* train_loss = train(unet, train_loader, optimizer, criterion)
TrainEpoch ==
    /\ script = "train" /\ pc = "loop"
    /\ epoch < epochs /\ epoch < MaxEpochs
    /\ \E r \in {train(ModelState, train_loader, accumulation_steps, epoch + 1)} :
           /\ params' = r.st.params
           /\ optState' = r.st.optState
           /\ grad' = r.st.grad
           /\ gradSrc' = r.st.gradSrc
           /\ mode' = "train"
           /\ callLog' = [ops |-> r.st.ops, steps |-> r.st.steps,
                          losses |-> r.st.losses]
           /\ trainRet' = [err |-> r.err, loss |-> r.loss]
           /\ IF r.err = "none"
              THEN /\ train_losses' = Append(train_losses, r.loss)
                   /\ paramHist' = Append(paramHist, r.st.params)
                   /\ pc' = "validate"
              ELSE /\ pc' = "raised"
                   /\ UNCHANGED <<train_losses, paramHist>>
    /\ UNCHANGED <<script, diceVars, predictVars, loaderVars, epoch, valRet, val_losses,
                   best_metric, ckpt, saveLog>>

\* dice_scores, val_loss = validate(unet, val_loader, criterion)
ValidateEpoch ==
    /\ script = "train" /\ pc = "validate"
    /\ \E r \in {validate(ModelState, val_loader)} :
           /\ params' = r.st.params
           /\ optState' = r.st.optState
           /\ grad' = r.st.grad
           /\ gradSrc' = r.st.gradSrc
           /\ mode' = "eval"
           /\ IF r.err = "none"
              THEN /\ valRet' = [err |-> "none", scores |-> r.scores, loss |-> r.loss]
                   /\ val_losses' = Append(val_losses, r.loss)
                   /\ pc' = "checkpoint"
              ELSE /\ valRet' = [err |-> r.err]
                   /\ pc' = "raised"
                   /\ UNCHANGED val_losses
    /\ UNCHANGED <<script, diceVars, predictVars, loaderVars, epoch, trainRet, train_losses,
                   best_metric, ckpt, callLog, paramHist, saveLog>>

\* a variant that also saves on a tie
ImprovedOrEqual(val_loss, best) == val_loss <= best

\* if val_loss < best_metric
Improved(val_loss, best) == val_loss < best

\* the end of the loop body: keep the best model, then the next epoch
Checkpoint ==
    /\ script = "train" /\ pc = "checkpoint"
    /\ IF Improved(valRet.loss, best_metric)
       THEN /\ best_metric' = valRet.loss
            /\ ckpt' = <<params>>
            /\ saveLog' = Append(saveLog, epoch + 1)
       ELSE UNCHANGED <<best_metric, ckpt, saveLog>>
    /\ epoch' = epoch + 1
    /\ pc' = "loop"
    /\ UNCHANGED <<script, diceVars, predictVars, modelVars, loaderVars, trainRet, valRet,
                   train_losses, val_losses, gradSrc, callLog, paramHist>>

TrainNext == TrainEpoch \/ ValidateEpoch \/ Checkpoint

SpecTrain == TrainInit /\ [][TrainNext]_vars

-----------------------------------------------------------------------------
(* dataset.get_test_dataloader and predict.py __main__ *)

\* the names bound at module level in dataset.py
DatasetGlobals ==
    {"os", "Sequence", "Mapping", "np", "load_data_3D", "Compose", "ToTensord",
     "Spacingd", "EnsureChannelFirstd", "ScaleIntensityRanged",
     "CropForegroundd", "Orientationd", "RandCropByPosNegLabeld", "Affined",
     "Dataset", "DataLoader", "default_collate", "train_transforms",
     "val_transforms", "transforms_dict", "MRIDataset", "collate_batch",
     "get_images", "get_dataloaders", "get_test_dataloader"}

\* the names bound in get_test_dataloader when it builds the DataLoader
TestLoaderLocals ==
    {"batch_size", "image_files", "mask_files", "num_samples", "indices",
     "split", "test_idx", "test_images", "test_masks", "test_ds"}

\* the name the DataLoader call reads for its batch_size argument
LoaderBatchSizeName == "val_batch"

\* np.random.permutation(n): an order of 0..n-1
permutation(n) ==
    {q \in [1..n -> 0..(n - 1)] : \A x, y \in 1..n : x # y => q[x] # q[y]}

\* indices[split:] with split = int(0.9 * num_samples)
TestIdx(indices) ==
    LET n == Len(indices)
        split == (9 * n) \div 10
    IN  [x \in 1..(n - split) |-> indices[split + x]]

\* get_test_dataloader(batch_size), with the permutation drawn
get_test_dataloader(batch_size, indices) ==
    IF ~dataDirs THEN [err |-> "FileNotFoundError", idx |-> <<>>]
    ELSE LET test_idx == TestIdx(indices)
         IN  IF \E x \in 1..Len(test_idx) : test_idx[x] >= maskFiles
             THEN [err |-> "IndexError", idx |-> test_idx]
             ELSE IF LoaderBatchSizeName \notin (TestLoaderLocals \cup DatasetGlobals)
             THEN [err |-> "NameError", idx |-> test_idx]
             ELSE [err |-> "none", idx |-> test_idx]

NoModelMessage ==
    "No saved model found, cannot make predictions: try running train.py first"

PredictInit ==
    /\ script = "predict"
    /\ DiceIdle
    /\ TrainIdle
    /\ checkpointExists \in BOOLEAN
    /\ dataDirs \in BOOLEAN
    /\ imageFiles \in 0..MaxFiles
    /\ maskFiles \in 0..MaxFiles
    /\ prPc = "start" /\ prErr = "none" /\ prOut = <<>> /\ prRan = {}
    /\ prTestIdx = <<>>

\* the script: unet = UNet3D().to(device), the test loader, criterion, then
\* the check of MODEL_PATH and the branch it selects
PredictMain ==
    /\ script = "predict" /\ prPc = "start"
    /\ \E indices \in permutation(imageFiles) :
       \E r \in {get_test_dataloader(1, indices)} :
           /\ prTestIdx' = r.idx
           /\ IF r.err # "none"
              THEN /\ prPc' = "raised" /\ prErr' = r.err
                   /\ UNCHANGED <<prOut, prRan>>
              ELSE IF checkpointExists
              THEN /\ prOut' = <<"Model found, loading saved model...">>
                   /\ prRan' = {"load", "validate", "visualise"}
                   /\ prPc' = "finished" /\ prErr' = "none"
              ELSE /\ prOut' = <<NoModelMessage>>
                   /\ prRan' = {}
                   /\ prPc' = "finished" /\ prErr' = "none"
    /\ UNCHANGED <<script, diceVars, trainVars, fileVars>>

SpecPredict == PredictInit /\ [][PredictMain]_vars

\* C5: when the file MODEL_PATH does not exist (and the dataset is in place),
\* the script prints the 'no saved model' message and ends normally: no step
\* before or after the check raises, and neither validation nor
\* visualisation runs.
C5_MissingCheckpointReported ==
    (script = "predict" /\ prPc # "start" /\ ~checkpointExists
        /\ dataDirs /\ imageFiles > 0 /\ imageFiles = maskFiles)
        => /\ prPc = "finished" /\ prErr = "none"
           /\ prOut = <<NoModelMessage>>
           /\ prRan = {}

-----------------------------------------------------------------------------
(* Properties of train(), validate() and the epoch loop *)

Abs(a) == IF a >= 0 THEN a ELSE -a

\* the positions in the log ops of the operations named op
OpsAt(ops, op) == {x \in 1..Len(ops) : ops[x].op = op}

\* C1: in a call of train() over n batches with accumulation_steps = k,
\* backward runs once per batch, in order; optimizer.step() runs exactly after
\* the backward of the batches whose 1-based position is a multiple of k,
\* floor(n / k) times in all, and each step is immediately followed by
\* zero_grad, which runs at no other point.
C1_StepEveryKBatches ==
    (script = "train" /\ trainRet.err # "unset") =>
        LET ops == callLog.ops
            k   == accumulation_steps
            n   == Len(callLog.losses)
        IN  /\ trainRet.err = "none" => n = Len(train_loader)
            /\ Cardinality(OpsAt(ops, "backward")) = n
            /\ \A j \in 1..n : \E x \in OpsAt(ops, "backward") : ops[x].at = j
            /\ \A x, y \in OpsAt(ops, "backward") : x < y => ops[x].at < ops[y].at
            /\ Cardinality(OpsAt(ops, "step")) = n \div k
            /\ {ops[x].at : x \in OpsAt(ops, "step")} = {j \in 1..n : j % k = 0}
            /\ \A x \in OpsAt(ops, "step") :
                   /\ x > 1 /\ ops[x - 1] = [op |-> "backward", at |-> ops[x].at]
                   /\ x < Len(ops) /\ ops[x + 1].op = "zero_grad"
            /\ \A x \in OpsAt(ops, "zero_grad") : x > 1 /\ ops[x - 1].op = "step"
            /\ optState = Len(paramHist) * (Len(train_loader) \div k)
                          + (IF trainRet.err = "none" THEN 0 ELSE n \div k)

\* a call over 7 batches with accumulation_steps = 3: two steps, one batch left
C1_Witness ==
    /\ script = "train" /\ pc = "validate" /\ trainRet.err = "none"
    /\ accumulation_steps = 3 /\ Len(train_loader) = 7
    /\ Cardinality(OpsAt(callLog.ops, "step")) = 2
    /\ callLog.ops[Len(callLog.ops)].op = "backward"

\* the least element of a non-empty sequence of numbers
SeqMin(q) == CHOOSE m \in {q[j] : j \in 1..Len(q)} : \A j \in 1..Len(q) : m <= q[j]

\* the epochs whose validation loss is strictly below every earlier one and
\* below the initial best_metric
RecordEpochs(losses) ==
    {j \in 1..Len(losses) :
        /\ losses[j] < InitialBest * Unit
        /\ \A h \in 1..(j - 1) : losses[j] < losses[h]}

\* C2: after any number of epochs, the file MODEL_PATH holds the parameters
\* as they were at the end of the earliest epoch that attained the lowest
\* validation loss so far, best_metric is that loss, and torch.save ran after
\* exactly the epochs whose loss was strictly below every earlier one.
C2_CheckpointIsEarliestBest ==
    (script = "train" /\ pc = "loop") =>
        /\ Len(val_losses) = epoch /\ Len(paramHist) = epoch
        /\ {saveLog[x] : x \in 1..Len(saveLog)} = RecordEpochs(val_losses)
        /\ \A x, y \in 1..Len(saveLog) : x < y => saveLog[x] < saveLog[y]
        /\ IF RecordEpochs(val_losses) = {}
           THEN ckpt = <<>> /\ best_metric = InitialBest * Unit
           ELSE LET m == SeqMin(val_losses)
                    e == CHOOSE j \in 1..epoch :
                            /\ val_losses[j] = m
                            /\ \A h \in 1..(j - 1) : val_losses[h] # m
                IN  ckpt = <<paramHist[e]>> /\ best_metric = m

\* two epochs: a save, then an epoch that ties the best loss with other
\* parameters and is not saved
C2_Witness ==
    /\ script = "train" /\ pc = "loop" /\ epoch >= 2
    /\ val_losses[2] = val_losses[1] /\ paramHist[2] # paramHist[1]
    /\ saveLog = <<1>> /\ ckpt = <<paramHist[1]>>

\* the floating tolerance of a comparison of two mean losses
LossTol == 100 * smooth

\* the result of train() from the current state with accumulation_steps = k
TrainWith(k) == train(ModelState, train_loader, k, epoch + 1)

ExpectedScores(p, loader) ==
    [c \in 1..(NumClasses - 1) |->
        DivRound(SumSeq([b \in 1..Len(loader) |->
                     FixDiv(ScoresOf[p, loader[b]].scores[c].num,
                            ScoresOf[p, loader[b]].scores[c].den)]),
                 Len(loader))]
ExpectedLoss(p, loader) ==
    DivRound(SumSeq([b \in 1..Len(loader) |-> CritOf[p, loader[b]].loss]),
             Len(loader))

\* C4: validate() leaves the parameters, the accumulated gradients and the
\* optimizer state as they were, and returns the pair (per-class scores
\* averaged over the batches, mean over the batches of the Dice loss).
C4_ValidateChangesNothing ==
    [][(script = "train" /\ pc = "validate" /\ pc' # "validate") =>
          /\ params' = params /\ grad' = grad /\ optState' = optState
          /\ gradSrc' = gradSrc
          /\ pc' = "checkpoint" =>
                /\ Len(valRet'.scores) = NumClasses - 1
                /\ valRet'.scores = ExpectedScores(params, val_loader)
                /\ valRet'.loss = ExpectedLoss(params, val_loader)]_vars

\* validate() has returned over two different batches with gradients pending
C4_Witness ==
    /\ script = "train" /\ pc = "checkpoint" /\ valRet.err = "none"
    /\ Len(val_loader) = 2 /\ val_loader[1] # val_loader[2]
    /\ grad # 0 /\ gradSrc # <<>> /\ optState > 0

\* C10: in the epoch loop (accumulation_steps = 12) the accumulated gradients
\* are zero at the start of every epoch, and every optimizer step applies the
\* gradients of exactly accumulation_steps batches of the current epoch.
C10_GradientsZeroAtEpochStart ==
    (script = "train" /\ accumulation_steps = DefaultAccum) =>
        /\ (pc = "loop" /\ epoch < epochs) => (gradSrc = <<>> /\ grad = 0)
        /\ \A x \in 1..Len(callLog.steps) :
               /\ Len(callLog.steps[x]) = accumulation_steps
               /\ \A y \in 1..Len(callLog.steps[x]) :
                      callLog.steps[x][y][1] = Len(train_losses)
                          + (IF trainRet.err = "none" THEN 0 ELSE 1)

-----------------------------------------------------------------------------
(* Properties of class Dice *)

\* a label value is an integer class index in [0, NumClasses)
ValidLabel(v) == v % LabelScale = 0 /\ 0 <= v /\ v < NumClasses * LabelScale
ValidTarget(t) == \A v \in 1..Len(t) : ValidLabel(t[v])

\* a score num/den equals 1.0 up to the smoothing epsilon
NearOne(f) == f.den > 0 /\ f.den - f.num <= smooth /\ f.num - f.den <= smooth

\* the logits are the one-hot encoding of the target, as 0/1 values
IsOneHotOf(pred, t) ==
    /\ Len(pred) = Len(t)
    /\ \A v \in 1..Len(t) : pred[v] = Hot(ToLong(t[v]), 1)

\* softmax of the logits is the one-hot encoding of the target
SoftmaxIsOneHotOf(pred, t) ==
    /\ Len(pred) = Len(t)
    /\ \A v \in 1..Len(t) : \A c \in 1..NumClasses :
           Softmax(pred[v])[c] = OneHot(ToLong(t[v]))[c] * Unit

\* C6: whenever the depth of the logits and of the target differ, the call
\* fails with an error; a target of extent 1 is never broadcast into a score.
C6_ShapeMismatchRejected ==
    (dPc = "called" /\ Len(dLogits) # Len(dTarget))
        => (dScores.err # "none" /\ dLoss.err # "none")

\* C7: every target holding a label that is not an integer or lies outside
\* [0, 6) is rejected with an error, never converted to one-hot and scored.
C7_InvalidLabelRejected ==
    (dPc = "called" /\ ~ValidTarget(dTarget)) => dScores.err # "none"

\* C8 as stated: for logits equal to the one-hot encoding of the target the
\* call returns 6 scores, all 1.0 up to the smoothing epsilon, and loss 0.
C8_OneHotLogitsScoreOne ==
    (dPc = "called" /\ ValidTarget(dTarget) /\ IsOneHotOf(dLogits, dTarget))
        => /\ dScores.err = "none"
           /\ Len(dScores.scores) = NumClasses
           /\ \A k \in 1..Len(dScores.scores) : NearOne(dScores.scores[k])
           /\ dLoss.err = "none" /\ dLoss.loss <= smooth

\* C8 amended: when softmax of the logits equals the one-hot encoding of a
\* valid target, the call returns one score for each of the 5 foreground
\* classes, each 1.0 up to the smoothing epsilon, and a loss of 0 up to it.
C8_SaturatedLogitsScoreOne ==
    (dPc = "called" /\ ValidTarget(dTarget) /\ SoftmaxIsOneHotOf(dLogits, dTarget))
        => /\ dScores.err = "none"
           /\ Len(dScores.scores) = NumClasses - 1
           /\ \A k \in 1..Len(dScores.scores) : NearOne(dScores.scores[k])
           /\ dLoss.err = "none" /\ dLoss.loss <= smooth /\ dLoss.loss >= 0

\* a perfect saturated prediction over two voxels, a foreground class present
C8_Witness ==
    /\ dPc = "called" /\ ValidTarget(dTarget)
    /\ SoftmaxIsOneHotOf(dLogits, dTarget)
    /\ Len(dTarget) = 2 /\ dTarget[1] = 10 /\ dTarget[2] = 0
    /\ dScores.err = "none"

\* C9: for every logits tensor and every valid target each score lies in
\* (0, 1] (and is defined: its denominator is not 0) and the loss in [0, 1].
C9_ScoresAndLossInRange ==
    (dPc = "called" /\ ValidTarget(dTarget))
        => /\ dScores.err = "none" =>
                \A k \in 1..Len(dScores.scores) :
                    /\ dScores.scores[k].den > 0
                    /\ 0 < dScores.scores[k].num
                    /\ dScores.scores[k].num <= dScores.scores[k].den
           /\ dLoss.err = "none" => (0 <= dLoss.loss /\ dLoss.loss <= Unit)

\* the same bounds for logits and target of the same shape
DiceRangeSameShape ==
    (dPc = "called" /\ ValidTarget(dTarget) /\ Len(dLogits) = Len(dTarget))
        => /\ dScores.err = "none" /\ dLoss.err = "none"
           /\ \A k \in 1..Len(dScores.scores) :
                  /\ 0 < dScores.scores[k].num
                  /\ dScores.scores[k].num <= dScores.scores[k].den
           /\ 0 <= dLoss.loss /\ dLoss.loss <= Unit

====
